---- MODULE Spec2Model ----
(***************************************************************************)
(* Model of the podcast transcription pipeline of src/app.py:              *)
(* get_real_audio_url, transcribe_with_retry, summarize_to_markdown and     *)
(* process_audio, one pipeline run over a working directory.                *)
(*                                                                          *)
(* Text is a sequence of tokens <<kind, n>>; a file is a record of what    *)
(* its name is made of.                                                     *)
(***************************************************************************)
EXTENDS Integers, Sequences, FiniteSets, TLC

VARIABLES
    input_url,       \* the URL the user typed
    audio,           \* the recording behind it: number of 10-minute segments, ASR vocabulary
    pc,              \* position of process_audio
    real_url,        \* result of get_real_audio_url
    session_id,      \* uuid4().hex of the run, 0 before it is allocated
    disk,            \* files of the working directory
    chunk_files,     \* the sorted listing of the run's segment files
    i,               \* loop index of the transcription loop (0-based)
    attempt,         \* passes of the retry loop that have raised, in the current call
    text,            \* value returned by transcribe_with_retry
    full_text,       \* the transcript being built
    markdown_output, \* the summary document
    exc,             \* the exception on its way to `except Exception as e`
    errors,          \* what st.error has shown
    shown,           \* partial transcripts shown in result_placeholder
    progress,        \* fractions <<num, den>> given to progress_bar
    delivered_md,    \* summary document handed to the result sink
    delivered_txt,   \* transcript handed to the result sink
    asr_calls,       \* ASR requests made by the current transcribe_with_retry call
    asr_used,        \* whether the run has made any ASR request
    llm_calls,       \* number of chat completion requests
    slept,           \* time spent in time.sleep by the current transcribe_with_retry call
    fragments,       \* per appended fragment: the segment file and the text
    sweep_todo,      \* files the teardown sweep has still to visit
    del_failed,      \* <<place, file>> for every os.remove that raised
    second,          \* whether the finally block is being executed a second time
    other            \* the suspended state of a concurrent run of process_audio, if any

vars == <<input_url, audio, pc, real_url, session_id, disk, chunk_files, i,
          attempt, text, full_text, markdown_output, exc, errors, shown,
          progress, delivered_md, delivered_txt, asr_calls, asr_used, llm_calls, slept,
          fragments, sweep_todo, del_failed, second, other>>

----------------------------------------------------------------------------
(* Bounds of the model *)

MaxSegments == 3
LongSegments == 1001
MaxSession == 2

(* Program constants *)

Retries == 3
PadWidth == 3
Backoff == 2

----------------------------------------------------------------------------
(* Text *)

NL == <<"nl", 0>>
Surrogate == <<"surrogate", 0>>
Space == <<"sp", 0>>
Word(o) == <<"w", o>>

\* "[该片段转写失败]"
Sentinel == << <<"sentinel", 0>> >>

None == << >>

\* str.encode("utf-8", "ignore").decode("utf-8"): code points that cannot be
\* encoded (lone surrogates) are dropped, everything else is kept.
Utf8Ignore(t) == SelectSeq(t, LAMBDA c : c # Surrogate)

IsWhite(c) == c \in {Space, NL}

RECURSIVE LStrip(_)
LStrip(t) == IF t # << >> /\ IsWhite(Head(t)) THEN LStrip(Tail(t)) ELSE t

RECURSIVE RStrip(_)
RStrip(t) ==
    IF t # << >> /\ IsWhite(t[Len(t)]) THEN RStrip(SubSeq(t, 1, Len(t) - 1)) ELSE t

\* str.strip()
Strip(t) == RStrip(LStrip(t))

\* What the ASR service can answer for the segment holding audio part o.
TextKinds == {"plain", "empty", "multiline", "surrogate"}

Spoken(o, kind) ==
    CASE kind = "plain"     -> << Word(o) >>
      [] kind = "empty"     -> << >>
      [] kind = "multiline" -> << Word(o), NL, Word(o) >>
      [] kind = "surrogate" -> << Word(o), Surrogate >>

----------------------------------------------------------------------------
(* File names *)

Range(q) == {q[k] : k \in 1..Len(q)}

Min(S) == CHOOSE x \in S : \A y \in S : x <= y

Dot == 46
Zero == 48

RECURSIVE Digits(_)
Digits(n) == IF n < 10 THEN << Zero + n >> ELSE Append(Digits(n \div 10), Zero + (n % 10))

RECURSIVE ZeroPad(_, _)
ZeroPad(d, w) == IF Len(d) >= w THEN d ELSE ZeroPad(<< Zero >> \o d, w)

\* A file of the working directory: src_<sid>.m4a, or chunk_<sid>_<part as
\* %03d>.mp3 holding the ten-minute part number `part` of the recording.
SrcFile(s) == [kind |-> "src", sid |-> s, part |-> -1]
ChunkFile(s, o) == [kind |-> "chunk", sid |-> s, part |-> o]

\* "%03d.mp3" % part: what follows chunk_<session_id>_ in the file's name
Suffix(f) == ZeroPad(Digits(f.part), PadWidth) \o << Dot, 109, 112, 51 >>

\* A prefix test that leaves the session id out: any chunk_* file matches.
HasChunkPrefix_AnySession(f, s) == f.kind = "chunk"

\* f.startswith(f"chunk_{session_id}_")
HasChunkPrefix(f, s) == f.kind = "chunk" /\ f.sid = s

\* Python's < on two names with the same prefix: code point order, a proper
\* prefix before the longer string.
NameLess(f, g) ==
    LET a == Suffix(f)
        b == Suffix(g)
        m == IF Len(a) < Len(b) THEN Len(a) ELSE Len(b)
        diff == {j \in 1..m : a[j] # b[j]}
    IN  IF diff = {} THEN Len(a) < Len(b) ELSE a[Min(diff)] < b[Min(diff)]

\* os.listdir() filtered by the prefix, then sorted(): the directory order is
\* arbitrary and the names are distinct, so the result is the one ascending
\* arrangement of the matching names.
Matching(d, s) == {f \in d : HasChunkPrefix(f, s)}

Listing(d, s) ==
    LET parts == {f.part : f \in Matching(d, s)}
        top == IF parts = {} THEN 0 ELSE CHOOSE x \in parts : \A y \in parts : y <= x
        all == [k \in 1..(top + 1) |-> ChunkFile(s, k - 1)]
    IN  SelectSeq(all, LAMBDA f : f \in d)

Sorted(d, s) == SortSeq(Listing(d, s), NameLess)

----------------------------------------------------------------------------
(* get_real_audio_url *)

AudioExtensions == {".m4a", ".mp3"}

\* url.endswith((".m4a", ".mp3"))
EndsWithAudio(url) == url # << >> /\ url[Len(url)] \in AudioExtensions

EmbeddedUrl == << "https://cdn/ep1", ".m4a" >>

\* A query string after the path of a URL
Query == "?t=1"

InputUrls ==
    { << "https://pod/ep1" >>,
      << "https://pod/ep1", ".mp3" >>,
      << "https://pod/ep1", ".m4a" >>,
      << "https://pod/ep1", ".mp3", Query >> }

\* Outcomes of requests.get(url, timeout=10): it raises, or answers with a
\* Content-Type and a body in which the regex finds a media URL or nothing.
Probes ==
    { [raised |-> TRUE, audio |-> FALSE, match |-> None] } \cup
    { [raised |-> FALSE, audio |-> a, match |-> m] :
          a \in BOOLEAN, m \in {None, EmbeddedUrl} }

get_real_audio_url(url, probe) ==
    IF probe.raised THEN None
    ELSE IF probe.audio \/ EndsWithAudio(url) THEN url
    ELSE IF probe.match # None THEN probe.match
    ELSE None

----------------------------------------------------------------------------
(* summarize_to_markdown and its fallback *)

Banner == <<"banner", 0>>
ErrLabel == <<"errlabel", 0>>
Rule == <<"rule", 0>>
Markdown == <<"md", 0>>

\* response.choices[0].message.content as the LLM may produce it
LlmContents == { << Markdown >>, << Space, Markdown, NL >> }

\* str(e) of the exceptions the chat completion call can raise
ErrorMessages == { << >>, << <<"e", 1>> >> }

\* f"# 自动摘要失败\n\n错误信息：{e}\n\n---\n{full_text}"
FallbackDocument(msg, transcript) ==
    << Banner, ErrLabel >> \o msg \o << Rule >> \o transcript

Undelivered == << <<"undelivered", 0>> >>

----------------------------------------------------------------------------
(* process_audio *)

ForeignId == 0
SessionIds == 1..MaxSession

\* Files another, earlier session may have left in the working directory.
Leftovers == { {}, {ChunkFile(ForeignId, 0), SrcFile(ForeignId)} }

InitRun ==
    /\ pc = "resolve"
    /\ real_url = None
    /\ session_id = 0
    /\ chunk_files = << >>
    /\ i = 0
    /\ attempt = 0
    /\ text = << >>
    /\ full_text = << >>
    /\ markdown_output = << >>
    /\ exc = "none"
    /\ errors = << >>
    /\ shown = << >>
    /\ progress = << 0, 1 >>
    /\ delivered_md = Undelivered
    /\ delivered_txt = Undelivered
    /\ asr_calls = 0
    /\ asr_used = FALSE
    /\ llm_calls = 0
    /\ slept = 0
    /\ fragments = << >>
    /\ sweep_todo = {}
    /\ del_failed = {}
    /\ second = FALSE

\* No other run of process_audio shares the working directory.
NoRun == [name |-> "none"]

Init ==
    /\ input_url \in InputUrls
    /\ audio \in [n : 0..MaxSegments, vocab : {TextKinds}]
    /\ disk \in Leftovers
    /\ other = NoRun
    /\ InitRun

\* The early return forgotten: the run goes on without a URL.
AfterResolve_NoReturn(url) == "alloc"

\* real_url = get_real_audio_url(input_url); if not real_url: st.error; return
AfterResolve(url) == IF url = None THEN "returned" ELSE "alloc"

Resolve ==
    /\ pc = "resolve"
    /\ \E probe \in Probes :
         /\ real_url' = get_real_audio_url(input_url, probe)
         /\ pc' = AfterResolve(real_url')
         /\ errors' = IF real_url' = None THEN Append(errors, "unresolved") ELSE errors
    /\ UNCHANGED <<input_url, audio, session_id, disk, chunk_files, i, attempt,
                   text, full_text, markdown_output, exc, shown, progress,
                   delivered_md, delivered_txt, asr_calls, asr_used, llm_calls, slept,
                   fragments, sweep_todo, del_failed, second, other>>

\* session_id = uuid.uuid4().hex; temp_source = f"src_{session_id}.m4a"
AllocSession ==
    /\ pc = "alloc"
    /\ \E s \in SessionIds : session_id' = s
    /\ pc' = "fetch"
    /\ UNCHANGED <<input_url, audio, real_url, disk, chunk_files, i, attempt,
                   text, full_text, markdown_output, exc, errors, shown, progress,
                   delivered_md, delivered_txt, asr_calls, asr_used, llm_calls, slept,
                   fragments, sweep_todo, del_failed, second, other>>

temp_source == SrcFile(session_id)

\* The download completes: the whole body is written to temp_source.
FetchOk ==
    /\ pc = "fetch"
    /\ disk' = disk \cup {temp_source}
    /\ pc' = "segment"
    /\ UNCHANGED <<input_url, audio, real_url, session_id, chunk_files, i, attempt,
                   text, full_text, markdown_output, exc, errors, shown, progress,
                   delivered_md, delivered_txt, asr_calls, asr_used, llm_calls, slept,
                   fragments, sweep_todo, del_failed, second, other>>

\* requests.get raises, raise_for_status raises (both before the file is
\* opened), or writing fails after open(temp_source, "wb") created the file.
FetchCauses == {"connect", "status", "write"}

FetchError ==
    /\ pc = "fetch"
    /\ \E cause \in FetchCauses :
         /\ exc' = cause
         /\ disk' = IF cause = "write" THEN disk \cup {temp_source} ELSE disk
    /\ pc' = "except"
    /\ UNCHANGED <<input_url, audio, real_url, session_id, chunk_files, i, attempt,
                   text, full_text, markdown_output, errors, shown, progress,
                   delivered_md, delivered_txt, asr_calls, asr_used, llm_calls, slept,
                   fragments, sweep_todo, del_failed, second, other>>

\* The files ffmpeg writes for the first k ten-minute parts of the recording.
Segments(k) == {ChunkFile(session_id, o) : o \in 0..(k - 1)}

\* subprocess.run(["ffmpeg", ...], check=True) exits 0.
SegmentOk ==
    /\ pc = "segment"
    /\ disk' = disk \cup Segments(audio.n)
    /\ pc' = "list"
    /\ UNCHANGED <<input_url, audio, real_url, session_id, chunk_files, i, attempt,
                   text, full_text, markdown_output, exc, errors, shown, progress,
                   delivered_md, delivered_txt, asr_calls, asr_used, llm_calls, slept,
                   fragments, sweep_todo, del_failed, second, other>>

\* ffmpeg exits non-zero (CalledProcessError) after writing some of the parts.
SegmentFail ==
    /\ pc = "segment"
    /\ \E k \in 0..audio.n : disk' = disk \cup Segments(k)
    /\ exc' = "ffmpeg"
    /\ pc' = "except"
    /\ UNCHANGED <<input_url, audio, real_url, session_id, chunk_files, i, attempt,
                   text, full_text, markdown_output, errors, shown, progress,
                   delivered_md, delivered_txt, asr_calls, asr_used, llm_calls, slept,
                   fragments, sweep_todo, del_failed, second, other>>

\* chunk_files = sorted(...); if not chunk_files: st.error; return;
\* otherwise full_text = "" and the loop starts
ListChunks ==
    /\ pc = "list"
    /\ chunk_files' = Sorted(disk, session_id)
    /\ IF chunk_files' = << >>
       THEN /\ errors' = Append(errors, "nochunks")
            /\ pc' = "finally"
            /\ UNCHANGED <<full_text, i, attempt>>
       ELSE /\ errors' = errors
            /\ pc' = "attempt"
            /\ full_text' = << >>
            /\ i' = 0
            /\ attempt' = 0
    /\ UNCHANGED <<input_url, audio, real_url, session_id, disk, text,
                   markdown_output, exc, shown, progress, delivered_md,
                   delivered_txt, asr_calls, asr_used, llm_calls, slept, fragments,
                   sweep_todo, del_failed, second, other>>

chunk == chunk_files[i + 1]
total == Len(chunk_files)


\* transcribe_with_retry, one pass of `for _ in range(3)` that returns: the
\* file is read, the ASR service answers, the text is re-encoded.
AttemptOk ==
    /\ pc = "attempt"
    /\ attempt < Retries
    /\ chunk \in disk
    /\ \E kind \in audio.vocab : text' = Utf8Ignore(Spoken(chunk.part, kind))
    /\ asr_calls' = asr_calls + 1
    /\ asr_used' = TRUE
    /\ pc' = "append"
    /\ UNCHANGED <<input_url, audio, real_url, session_id, disk, chunk_files, i,
                   attempt, full_text, markdown_output, exc, errors, shown,
                   progress, delivered_md, delivered_txt, llm_calls, slept,
                   fragments, sweep_todo, del_failed, second, other>>

\* A pass that raises: open()/read() fails before the request is made, or the
\* request itself fails. Control goes to `except Exception`.
AttemptCauses == {"open", "asr"}

AttemptFail ==
    /\ pc = "attempt"
    /\ attempt < Retries
    /\ \E cause \in AttemptCauses :
         /\ chunk \notin disk => cause = "open"
         /\ asr_calls' = IF cause = "asr" THEN asr_calls + 1 ELSE asr_calls
         /\ asr_used' = (asr_used \/ cause = "asr")
    /\ pc' = "sleep"
    /\ UNCHANGED <<input_url, audio, real_url, session_id, disk, chunk_files, i,
                   attempt, text, full_text, markdown_output, exc, errors, shown,
                   progress, delivered_md, delivered_txt, llm_calls, slept,
                   fragments, sweep_todo, del_failed, second, other>>

\* except Exception: time.sleep(2), then the next pass of the for loop
Sleep ==
    /\ pc = "sleep"
    /\ slept' = slept + Backoff
    /\ attempt' = attempt + 1
    /\ pc' = "attempt"
    /\ UNCHANGED <<input_url, audio, real_url, session_id, disk, chunk_files, i,
                   text, full_text, markdown_output, exc, errors, shown, progress,
                   delivered_md, delivered_txt, asr_calls, asr_used, llm_calls, fragments,
                   sweep_todo, del_failed, second, other>>

\* The for loop is exhausted: return "[该片段转写失败]"
Exhausted ==
    /\ pc = "attempt"
    /\ attempt = Retries
    /\ text' = Sentinel
    /\ pc' = "append"
    /\ UNCHANGED <<input_url, audio, real_url, session_id, disk, chunk_files, i,
                   attempt, full_text, markdown_output, exc, errors, shown,
                   progress, delivered_md, delivered_txt, asr_calls, asr_used, llm_calls,
                   slept, fragments, sweep_todo, del_failed, second, other>>

\* An assignment in place of the +=: the Transcript is the last fragment.
AppendText_Overwrites ==
    /\ pc = "append"
    /\ full_text' = text \o << NL >>
    /\ shown' = full_text'
    /\ fragments' = Append(fragments, [chunk |-> chunk, text |-> text])
    /\ pc' = "remove"
    /\ UNCHANGED <<input_url, audio, real_url, session_id, disk, chunk_files, i,
                   attempt, text, markdown_output, exc, errors, progress,
                   delivered_md, delivered_txt, asr_calls, asr_used, llm_calls, slept,
                   sweep_todo, del_failed, second, other>>

\* full_text += text + "\n"; result_placeholder.text_area(..., full_text)
AppendText ==
    /\ pc = "append"
    /\ full_text' = full_text \o text \o << NL >>
    /\ shown' = full_text'
    /\ fragments' = Append(fragments, [chunk |-> chunk, text |-> text])
    /\ pc' = "remove"
    /\ UNCHANGED <<input_url, audio, real_url, session_id, disk, chunk_files, i,
                   attempt, text, markdown_output, exc, errors, progress,
                   delivered_md, delivered_txt, asr_calls, asr_used, llm_calls, slept,
                   sweep_todo, del_failed, second, other>>

\* A report of the index of the segment instead of the number processed.
ProgressAfter_Index(k, n) == << k, n >>

\* (i + 1) / total, the fraction reported after the segment at index k of n,
\* as numerator and denominator
ProgressAfter(k, n) == << k + 1, n >>

\* After os.remove(chunk) and progress_bar.progress: the next iteration, or
\* the end of the loop.
AfterRemove(k, n) == IF k + 1 = n THEN "summarize" ELSE "attempt"

\* The end of an iteration without its os.remove(chunk).
RemoveChunkOk_KeepsFile ==
    /\ pc = "remove"
    /\ progress' = ProgressAfter(i, total)
    /\ i' = i + 1
    /\ attempt' = 0
    /\ asr_calls' = 0
    /\ slept' = 0
    /\ pc' = AfterRemove(i, total)
    /\ UNCHANGED <<input_url, audio, real_url, session_id, disk, chunk_files,
                   text, full_text, markdown_output, exc, errors, shown,
                   delivered_md, delivered_txt, asr_used, llm_calls, fragments,
                   sweep_todo, del_failed, second, other>>

\* os.remove(chunk); gc.collect(); progress_bar.progress((i + 1) / total)
RemoveChunkOk ==
    /\ pc = "remove"
    /\ chunk \in disk
    /\ disk' = disk \ {chunk}
    /\ progress' = ProgressAfter(i, total)
    /\ i' = i + 1
    /\ attempt' = 0
    /\ asr_calls' = 0
    /\ slept' = 0
    /\ pc' = AfterRemove(i, total)
    /\ UNCHANGED <<input_url, audio, real_url, session_id, chunk_files, text,
                   full_text, markdown_output, exc, errors, shown, delivered_md,
                   delivered_txt, asr_used, llm_calls, fragments, sweep_todo,
                   del_failed, second, other>>

\* An os.remove(chunk) whose exception is dropped: the loop goes on with the
\* file still in the directory.
RemoveChunkFail_Swallowed ==
    /\ pc = "remove"
    /\ del_failed' = del_failed \cup { << "loop", chunk >> }
    /\ progress' = ProgressAfter(i, total)
    /\ i' = i + 1
    /\ attempt' = 0
    /\ asr_calls' = 0
    /\ slept' = 0
    /\ pc' = AfterRemove(i, total)
    /\ UNCHANGED <<input_url, audio, real_url, session_id, disk, chunk_files,
                   text, full_text, markdown_output, exc, errors, shown,
                   delivered_md, delivered_txt, asr_used, llm_calls, fragments,
                   sweep_todo, second, other>>

\* os.remove(chunk) raises: nothing guards it inside the loop, so the
\* exception leaves the loop for `except Exception as e`.
RemoveChunkFail ==
    /\ pc = "remove"
    /\ del_failed' = del_failed \cup { << "loop", chunk >> }
    /\ exc' = "remove"
    /\ pc' = "except"
    /\ UNCHANGED <<input_url, audio, real_url, session_id, disk, chunk_files, i,
                   attempt, text, full_text, markdown_output, errors, shown,
                   progress, delivered_md, delivered_txt, asr_calls, asr_used, llm_calls,
                   slept, fragments, sweep_todo, second, other>>

\* markdown_output = summarize_to_markdown(...): the content, stripped
SummarizeOk ==
    /\ pc = "summarize"
    /\ \E content \in LlmContents : markdown_output' = Strip(content)
    /\ llm_calls' = llm_calls + 1
    /\ pc' = "deliver"
    /\ UNCHANGED <<input_url, audio, real_url, session_id, disk, chunk_files, i,
                   attempt, text, full_text, exc, errors, shown, progress,
                   delivered_md, delivered_txt, asr_calls, asr_used, slept, fragments,
                   sweep_todo, del_failed, second, other>>

\* except Exception as e: markdown_output = the fallback document
SummarizeFail ==
    /\ pc = "summarize"
    /\ \E msg \in ErrorMessages : markdown_output' = FallbackDocument(msg, full_text)
    /\ llm_calls' = llm_calls + 1
    /\ pc' = "deliver"
    /\ UNCHANGED <<input_url, audio, real_url, session_id, disk, chunk_files, i,
                   attempt, text, full_text, exc, errors, shown, progress,
                   delivered_md, delivered_txt, asr_calls, asr_used, slept, fragments,
                   sweep_todo, del_failed, second, other>>

\* st.text_area(markdown_output) and the two st.download_button calls
Deliver ==
    /\ pc = "deliver"
    /\ delivered_md' = markdown_output
    /\ delivered_txt' = full_text
    /\ pc' = "finally"
    /\ UNCHANGED <<input_url, audio, real_url, session_id, disk, chunk_files, i,
                   attempt, text, full_text, markdown_output, exc, errors, shown,
                   progress, asr_calls, asr_used, llm_calls, slept, fragments, sweep_todo,
                   del_failed, second, other>>

\* except Exception as e: st.error(f"出错：{e}")
Except ==
    /\ pc = "except"
    /\ errors' = Append(errors, exc)
    /\ pc' = "finally"
    /\ UNCHANGED <<input_url, audio, real_url, session_id, disk, chunk_files, i,
                   attempt, text, full_text, markdown_output, exc, shown, progress,
                   delivered_md, delivered_txt, asr_calls, asr_used, llm_calls, slept,
                   fragments, sweep_todo, del_failed, second, other>>

\* The teardown without its os.remove(temp_source).
FinallySource_KeepsSource ==
    /\ pc = "finally"
    /\ sweep_todo' = Matching(disk, session_id)
    /\ pc' = "sweep"
    /\ UNCHANGED <<input_url, audio, real_url, session_id, disk, chunk_files, i,
                   attempt, text, full_text, markdown_output, exc, errors, shown,
                   progress, delivered_md, delivered_txt, asr_calls, asr_used,
                   llm_calls, slept, fragments, del_failed, second, other>>

\* A sweep over the files the run has listed instead of the directory.
SweepTargets_ListedOnly == Range(chunk_files) \cap disk

\* The files the sweep visits: os.listdir() filtered by the session's prefix
SweepTargets == Matching(disk, session_id)

\* finally: if os.path.exists(temp_source): os.remove(temp_source); then
\* os.listdir() for the sweep
FinallySource ==
    /\ pc = "finally"
    /\ disk' = disk \ {temp_source}
    /\ sweep_todo' = SweepTargets
    /\ pc' = "sweep"
    /\ UNCHANGED <<input_url, audio, real_url, session_id, chunk_files, i, attempt,
                   text, full_text, markdown_output, exc, errors, shown, progress,
                   delivered_md, delivered_txt, asr_calls, asr_used, llm_calls, slept,
                   fragments, del_failed, second, other>>

\* os.remove(temp_source) raises inside finally: nothing catches it, the
\* sweep is skipped and the exception leaves process_audio.
FinallySourceFail ==
    /\ pc = "finally"
    /\ temp_source \in disk
    /\ del_failed' = del_failed \cup { << "source", temp_source >> }
    /\ pc' = "raised"
    /\ UNCHANGED <<input_url, audio, real_url, session_id, disk, chunk_files, i,
                   attempt, text, full_text, markdown_output, exc, errors, shown,
                   progress, delivered_md, delivered_txt, asr_calls, asr_used, llm_calls,
                   slept, fragments, sweep_todo, second, other>>

\* for f in os.listdir(): if f.startswith(...): try: os.remove(f)
SweepRemoveOk ==
    /\ pc = "sweep"
    /\ \E f \in sweep_todo :
         /\ f \in disk
         /\ disk' = disk \ {f}
         /\ sweep_todo' = sweep_todo \ {f}
    /\ UNCHANGED <<input_url, audio, pc, real_url, session_id, chunk_files, i,
                   attempt, text, full_text, markdown_output, exc, errors, shown,
                   progress, delivered_md, delivered_txt, asr_calls, asr_used, llm_calls,
                   slept, fragments, del_failed, second, other>>

\* except Exception: pass
SweepRemoveFail ==
    /\ pc = "sweep"
    /\ \E f \in sweep_todo :
         /\ del_failed' = del_failed \cup { << "sweep", f >> }
         /\ sweep_todo' = sweep_todo \ {f}
    /\ UNCHANGED <<input_url, audio, pc, real_url, session_id, disk, chunk_files,
                   i, attempt, text, full_text, markdown_output, exc, errors, shown,
                   progress, delivered_md, delivered_txt, asr_calls, asr_used, llm_calls,
                   slept, fragments, second, other>>

\* The sweep has visited every listed file: process_audio returns.
SweepDone ==
    /\ pc = "sweep"
    /\ sweep_todo = {}
    /\ pc' = "returned"
    /\ UNCHANGED <<input_url, audio, real_url, session_id, disk, chunk_files, i,
                   attempt, text, full_text, markdown_output, exc, errors, shown,
                   progress, delivered_md, delivered_txt, asr_calls, asr_used, llm_calls,
                   slept, fragments, sweep_todo, del_failed, second, other>>

Next ==
    \/ Resolve
    \/ AllocSession
    \/ FetchOk
    \/ FetchError
    \/ SegmentOk
    \/ SegmentFail
    \/ ListChunks
    \/ AttemptOk
    \/ AttemptFail
    \/ Sleep
    \/ Exhausted
    \/ AppendText
    \/ RemoveChunkOk
    \/ RemoveChunkFail
    \/ SummarizeOk
    \/ SummarizeFail
    \/ Deliver
    \/ Except
    \/ FinallySource
    \/ FinallySourceFail
    \/ SweepRemoveOk
    \/ SweepRemoveFail
    \/ SweepDone

Spec == Init /\ [][Next]_vars

----------------------------------------------------------------------------
(* A long recording processed without any fault of the environment: the    *)
(* same actions, started on an audio of LongSegments ten-minute parts.      *)

InitLong ==
    /\ input_url = << "https://pod/ep1", ".mp3" >>
    /\ audio = [n |-> LongSegments, vocab |-> {"plain"}]
    /\ disk = {}
    /\ other = NoRun
    /\ InitRun

NextLong ==
    \/ Resolve
    \/ AllocSession
    \/ FetchOk
    \/ SegmentOk
    \/ ListChunks
    \/ AttemptOk
    \/ AppendText
    \/ RemoveChunkOk
    \/ SummarizeOk
    \/ Deliver
    \/ FinallySource
    \/ SweepDone

SpecLong == InitLong /\ [][NextLong]_vars

----------------------------------------------------------------------------
(* Two browser sessions press the button: two runs of process_audio share  *)
(* the working directory. One run is the current one, whose locals are the *)
(* variables of the module; the locals of the suspended one are kept in    *)
(* `other`. The directory is the only thing the two have in common.        *)

PairSegments == 2

\* The name of the run that is not r
Peer(r) == IF r = "A" THEN "B" ELSE "A"

\* The locals of the current run, kept under the name r while it is suspended
Suspended(r) == [name |-> r,
                 input_url |-> input_url,
                 audio |-> audio,
                 pc |-> pc,
                 real_url |-> real_url,
                 session_id |-> session_id,
                 chunk_files |-> chunk_files,
                 i |-> i,
                 attempt |-> attempt,
                 text |-> text,
                 full_text |-> full_text,
                 markdown_output |-> markdown_output,
                 exc |-> exc,
                 errors |-> errors,
                 shown |-> shown,
                 progress |-> progress,
                 delivered_md |-> delivered_md,
                 delivered_txt |-> delivered_txt,
                 asr_calls |-> asr_calls,
                 asr_used |-> asr_used,
                 llm_calls |-> llm_calls,
                 slept |-> slept,
                 fragments |-> fragments,
                 sweep_todo |-> sweep_todo,
                 del_failed |-> del_failed,
                 second |-> second]

\* The scheduler takes the processor from the current run and gives it to
\* the other one, which goes on where it was.
Switch ==
    /\ other # NoRun
    /\ other' = Suspended(Peer(other.name))
    /\ input_url' = other.input_url
    /\ audio' = other.audio
    /\ pc' = other.pc
    /\ real_url' = other.real_url
    /\ session_id' = other.session_id
    /\ chunk_files' = other.chunk_files
    /\ i' = other.i
    /\ attempt' = other.attempt
    /\ text' = other.text
    /\ full_text' = other.full_text
    /\ markdown_output' = other.markdown_output
    /\ exc' = other.exc
    /\ errors' = other.errors
    /\ shown' = other.shown
    /\ progress' = other.progress
    /\ delivered_md' = other.delivered_md
    /\ delivered_txt' = other.delivered_txt
    /\ asr_calls' = other.asr_calls
    /\ asr_used' = other.asr_used
    /\ llm_calls' = other.llm_calls
    /\ slept' = other.slept
    /\ fragments' = other.fragments
    /\ sweep_todo' = other.sweep_todo
    /\ del_failed' = other.del_failed
    /\ second' = other.second
    /\ UNCHANGED disk

\* Run A is about to start and run B is suspended at its own start: both on a
\* direct link to a recording of 1..PairSegments parts, in an empty directory.
InitTwo ==
    /\ input_url = << "https://pod/ep1", ".mp3" >>
    /\ audio \in [n : 1..PairSegments, vocab : {{"plain"}}]
    /\ disk = {}
    /\ InitRun
    /\ \E m \in 1..PairSegments :
           other = [Suspended("B") EXCEPT !.audio = [n |-> m, vocab |-> {"plain"}]]

\* The steps of the current run and the switch to the other run. The only
\* fault of the environment is an os.remove in the loop that raises; the
\* retry loop of transcribe_with_retry is left out, so a run is not followed
\* beyond an attempt on a file that is no longer there.
NextTwo ==
    \/ Resolve
    \/ AllocSession
    \/ FetchOk
    \/ SegmentOk
    \/ ListChunks
    \/ AttemptOk
    \/ AppendText
    \/ RemoveChunkOk
    \/ RemoveChunkFail
    \/ SummarizeOk
    \/ Deliver
    \/ Except
    \/ FinallySource
    \/ SweepRemoveOk
    \/ SweepDone
    \/ Switch

SpecTwo == InitTwo /\ [][NextTwo]_vars

----------------------------------------------------------------------------
(* The finally block applied once more to what its first execution left.   *)

\* A run that allocated a session id is over: the statements of its finally
\* block are executed a second time, on the same locals and the directory as
\* it is.
FinallyAgain ==
    /\ pc \in {"returned", "raised"}
    /\ session_id # 0
    /\ ~second
    /\ second' = TRUE
    /\ pc' = "finally"
    /\ UNCHANGED <<input_url, audio, real_url, session_id, disk, chunk_files, i,
                   attempt, text, full_text, markdown_output, exc, errors, shown,
                   progress, delivered_md, delivered_txt, asr_calls, asr_used,
                   llm_calls, slept, fragments, sweep_todo, del_failed, other>>

\* A direct link to a recording of 0..MaxSegments parts, in a directory that
\* may hold the leftovers of an earlier session
InitCleanup ==
    /\ input_url = << "https://pod/ep1", ".mp3" >>
    /\ audio \in [n : 0..MaxSegments, vocab : {{"plain"}}]
    /\ disk \in Leftovers
    /\ other = NoRun
    /\ InitRun

NextCleanup ==
    \/ Next
    \/ FinallyAgain

SpecCleanup == InitCleanup /\ [][NextCleanup]_vars

----------------------------------------------------------------------------
(* Properties *)

Allocated == session_id # 0
Ended == pc \in {"returned", "raised"}

\* src_<session_id>.m4a and chunk_<session_id>_* still in the directory
Artifacts == {f \in disk : f = temp_source \/ HasChunkPrefix(f, session_id)}

Delivered == delivered_md # Undelivered /\ delivered_txt # Undelivered

\* C1 as stated: whenever process_audio returns from a run that allocated a
\* session id, neither src_<id>.m4a nor any chunk_<id>_* file is left.
C1_NoArtifactAfterReturn ==
    (pc = "returned" /\ Allocated) => Artifacts = {}

\* C1 amended: when process_audio returns from a run that allocated a session
\* id, src_<id>.m4a is gone and every chunk_<id>_* file still present is one
\* whose os.remove raised in the teardown sweep.
C1_OnlyUndeletableRemain ==
    (pc = "returned" /\ Allocated) =>
        /\ temp_source \notin disk
        /\ \A f \in Artifacts : << "sweep", f >> \in del_failed

\* C1: a run that was aborted by an exception inside the loop, whose segment file
\* the teardown then removed, and that returned with nothing left.
C1_Witness ==
    /\ pc = "returned"
    /\ Allocated
    /\ "remove" \in Range(errors)
    /\ \E f \in Range(chunk_files) : << "loop", f >> \in del_failed /\ f \notin disk
    /\ Artifacts = {}

\* The files on which some os.remove has raised
FailedOn == {d[2] : d \in del_failed}

\* C2 as stated: an os.remove that raises (per-segment delete, media file or
\* sweep) is swallowed: it is not on its way to the handler, it is not shown
\* to the user, it does not make process_audio raise, and the run does not end
\* with an artifact whose deletion was never attempted.
C2_DeletionFailureSwallowed ==
    /\ exc # "remove"
    /\ "remove" \notin Range(errors)
    /\ pc # "raised"
    /\ (Ended /\ Allocated) => Artifacts \subseteq FailedOn

\* C3 as stated: once the listing holds at least one segment, the run ends
\* with both the Transcript and the SummaryDocument delivered.
C3_AlwaysDeliversAfterSegmentation ==
    (Ended /\ chunk_files # << >>) => Delivered

\* The number of listed segment files whose ordinal is smaller than f's
Rank(f) == Cardinality({k \in 1..total : chunk_files[k].part < f.part})

\* C4 as stated: a run that reaches the end of the transcription stage with n
\* segments has appended exactly n fragments, and the k-th fragment transcribes
\* the segment with the k-th smallest ordinal. A fragment never changes once
\* appended, so each one is judged from the moment it is appended.
C4_FragmentPerSegmentInOrdinalOrder ==
    /\ \A k \in 1..Len(fragments) : Rank(fragments[k].chunk) = k - 1
    /\ pc = "summarize" => Len(fragments) = total

\* C5 as stated: the segment files are processed in the numeric order of their
\* ordinals, whatever the number of segments.
C5_ProcessedInNumericOrder ==
    \A k \in 1..(Len(chunk_files) - 1) : chunk_files[k].part < chunk_files[k + 1].part


\* C6 as stated: a fragment is the sentinel exactly when the three passes of
\* the retry loop all raised, it stands at its segment's position, and a run
\* that has put a sentinel in the Transcript still transcribes every later
\* segment.
C6_SentinelInPlaceAndRunGoesOn ==
    /\ pc \in {"append", "remove"} => (text = Sentinel <=> attempt = Retries)
    /\ pc = "remove" =>
          /\ Len(fragments) = i + 1
          /\ fragments[i + 1] = [chunk |-> chunk, text |-> text]
    /\ Ended =>
          \A k \in 1..Len(fragments) :
              fragments[k].text = Sentinel => Len(fragments) = total

\* The text between "错误信息：" and the "---" rule of a fallback document
ErrorDescription(doc) ==
    LET rules == {k \in 1..Len(doc) : doc[k] = Rule}
    IN  IF rules = {} THEN << >> ELSE SubSeq(doc, 3, Min(rules) - 1)

IsSuffix(t, doc) ==
    Len(t) <= Len(doc) /\ SubSeq(doc, Len(doc) - Len(t) + 1, Len(doc)) = t

\* The delivered document is the one built by `except Exception as e`
FallbackDelivered == delivered_md # << >> /\ Head(delivered_md) = Banner

\* C7 as stated: when the LLM call raised, the delivered SummaryDocument ends
\* with the whole Transcript, carries a non-empty error description, and the
\* Transcript is delivered as well.
C7_FallbackKeepsTranscriptAndDescribesError ==
    FallbackDelivered =>
        /\ IsSuffix(full_text, delivered_md)
        /\ ErrorDescription(delivered_md) # << >>
        /\ delivered_txt = full_text

\* The URL without its query string
Path(url) ==
    IF url # << >> /\ url[Len(url)] = Query THEN SubSeq(url, 1, Len(url) - 1) ELSE url

\* C8 as stated: a URL whose path ends in .mp3 or .m4a resolves to itself,
\* whatever the probing request does.
C8_DirectLinkResolvesToItself ==
    (pc # "resolve" /\ EndsWithAudio(Path(input_url))) => real_url = input_url

\* The download was refused, ffmpeg exited non-zero, or the listing after
\* ffmpeg was empty.
EarlyFailure ==
    \/ exc \in {"status", "ffmpeg"}
    \/ /\ Allocated
       /\ exc = "none"
       /\ chunk_files = << >>
       /\ pc \in {"finally", "sweep", "returned", "raised"}

EarlyFailureReported ==
    IF exc = "none" THEN "nochunks" \in Range(errors) ELSE exc \in Range(errors)

NothingProduced == ~asr_used /\ llm_calls = 0 /\ ~Delivered /\ fragments = << >>

C10_UnresolvedStopsTheRun ==
    (pc # "resolve" /\ real_url = None) =>
        /\ pc = "returned"
        /\ errors = << "unresolved" >>
        /\ session_id = 0
        /\ exc = "none"
        /\ \A f \in disk : f.sid = ForeignId
        /\ chunk_files = << >>
        /\ NothingProduced

\* C10: a direct audio link whose probe raised: the run showed the error and
\* returned.
C10_Witness ==
    /\ pc = "returned"
    /\ real_url = None
    /\ errors = << "unresolved" >>
    /\ EndsWithAudio(input_url)

----------------------------------------------------------------------------
(* Sequencing of the stages *)

\* The segment files whose call of transcribe_with_retry has returned
Transcribed == {fragments[k].chunk : k \in 1..Len(fragments)}

\* C12 as stated: the stages run in the order Resolve, Fetch, Segment,
\* Transcribe[0..n-1], Summarize. No segment is transcribed twice, at most the
\* segment under way lacks its fragment, the call for a segment begins only
\* when every segment with a smaller ordinal has returned, and the LLM is
\* called at most once, after the call for the last segment has returned.
C12_StagesInOrderOncePerSegment ==
    /\ Len(fragments) \in {i, i + 1}
    /\ \A k, m \in 1..Len(fragments) :
           fragments[k].chunk = fragments[m].chunk => k = m
    /\ pc \in {"attempt", "sleep"} =>
           /\ Len(fragments) = i
           /\ \A f \in Range(chunk_files) :
                  f.part < chunk.part => f \in Transcribed
    /\ llm_calls <= 1
    /\ llm_calls = 1 => (total > 0 /\ Len(fragments) = total)
    /\ pc \in {"summarize", "deliver"} => Transcribed = Range(chunk_files)

----------------------------------------------------------------------------
(* The lines of the Transcript *)

\* str.splitlines on a text whose only line break is "\n": the lines without
\* their terminators
RECURSIVE Lines(_)
Lines(t) ==
    IF t = << >> THEN << >>
    ELSE LET e == Min({j \in 1..Len(t) : t[j] = NL} \cup {Len(t) + 1})
         IN  << SubSeq(t, 1, e - 1) >> \o Lines(SubSeq(t, e + 1, Len(t)))

\* The Transcript is complete: the loop is over, or the text was delivered.
TranscriptFinal == pc \in {"summarize", "deliver"} \/ Delivered

\* C13 as stated: the final Transcript of a run over n segments ends with a
\* newline, has exactly n lines, and line k is the text returned for segment
\* k, whatever the ASR service returned.
C13_OneLinePerFragment ==
    TranscriptFinal =>
        /\ full_text[Len(full_text)] = NL
        /\ Len(Lines(full_text)) = total
        /\ \A k \in 1..total : Lines(full_text)[k] = fragments[k].text

----------------------------------------------------------------------------
(* The retry loop *)

\* C15 as stated: a call of transcribe_with_retry makes at most Retries ASR
\* requests, none after a success, every wait of Backoff is followed by
\* another pass on the same segment, and a call whose passes all failed has
\* waited Retries - 1 times.
C15_WaitsOnlyBeforeRetry ==
    /\ asr_calls <= Retries
    /\ asr_calls <= attempt + 1
    /\ slept = Backoff * attempt
    /\ pc = "attempt" => attempt < Retries
    /\ (pc = "append" /\ text = Sentinel) => slept = Backoff * (Retries - 1)

----------------------------------------------------------------------------
(* Segment files on disk *)

\* The number of chunk_<session_id>_* files in the working directory
OnDisk == Cardinality(Matching(disk, session_id))

\* ffmpeg has returned: the run is past the segmentation stage.
Segmented == Allocated /\ pc \notin {"resolve", "alloc", "fetch", "segment"}

\* The run is inside the `for i, chunk in enumerate(chunk_files)` loop.
Transcribing == pc \in {"attempt", "sleep", "append", "remove"}

\* C16 as stated: from the end of segmentation to the end of the run the
\* session has no more segment files on disk than the one segment in flight,
\* however many segments the recording has.
C16_OneSegmentOnDisk ==
    Segmented => OnDisk <= 1

\* C16 amended: ffmpeg writes all n segment files before the loop starts and
\* the loop deletes one per iteration, so inside the loop the session has
\* exactly n - i files on disk, i being the number of segments processed, and
\* from the end of segmentation to the end of the run never more than n - i:
\* the peak is n.
C16_AllSegmentsThenOneLessEach ==
    /\ Transcribing => (total = audio.n /\ OnDisk = total - i)
    /\ Segmented => OnDisk <= audio.n - i

\* C16: the loop starts on a recording of MaxSegments segments with every one
\* of its files on disk.
C16_Witness ==
    /\ pc = "attempt"
    /\ i = 0
    /\ total = MaxSegments
    /\ OnDisk = MaxSegments

\* C17: inside the loop the file of the segment under way is on disk until
\* its fragment has been appended, so no pass of the retry loop reads a
\* deleted file; the files of all segments processed before it are gone when
\* it is submitted; the files of the segments after it are untouched.
C17_DeletedBetweenSegments ==
    Transcribing =>
        /\ chunk \in disk
        /\ \A k \in 1..i : chunk_files[k] \notin disk
        /\ \A k \in (i + 2)..total : chunk_files[k] \in disk
        /\ Len(fragments) = (IF pc = "remove" THEN i + 1 ELSE i)

\* C17: a segment is submitted after the segment before it exhausted its
\* retries and had its file deleted.
C17_Witness ==
    /\ pc = "attempt"
    /\ i >= 1
    /\ fragments[i].text = Sentinel
    /\ chunk_files[i] \notin disk
    /\ chunk \in disk

----------------------------------------------------------------------------
(* Progress and the growing Transcript *)

\* p < q for two fractions given as <<numerator, denominator>>
FractionLess(p, q) == p[1] * q[2] < q[1] * p[2]

\* C18: the fraction shown by the progress bar is 0 until a segment has been
\* processed and (i + 1) / n after the segment at index i, lies in [0, 1], is
\* 1 exactly when all n segments have been processed, and every report is
\* strictly larger than the one before it.
C18_ProgressFraction ==
    /\ [](/\ progress = (IF i = 0 THEN << 0, 1 >> ELSE << i, total >>)
          /\ 0 <= progress[1]
          /\ progress[1] <= progress[2]
          /\ 0 < progress[2]
          /\ progress[1] = progress[2] <=> (total > 0 /\ i = total))
    /\ [][(i' # i \/ progress' # progress) =>
              /\ i' = i + 1
              /\ progress' = << i + 1, total >>
              /\ FractionLess(progress, progress')]_vars

\* C18: the last of several segments has been processed and the bar is full.
C18_Witness ==
    /\ pc = "summarize"
    /\ total > 1
    /\ progress = << total, total >>

\* s is an initial part of t
IsPrefix(s, t) == Len(s) <= Len(t) /\ SubSeq(t, 1, Len(s)) = s

\* The texts of the fragments, each followed by its "\n"
RECURSIVE Joined(_)
Joined(fs) ==
    IF fs = << >> THEN << >>
    ELSE Joined(SubSeq(fs, 1, Len(fs) - 1)) \o fs[Len(fs)].text \o << NL >>

\* C19: the Transcript is at all times the fragments appended so far, in the
\* order of their appending; what the text area shows is an initial part of
\* it; what is delivered is the whole of it; and no step, whether a failed
\* segment, the summarization or the teardown, does anything to the
\* Transcript, the shown text or the fragments but extend them at the end.
C19_TranscriptOnlyGrows ==
    /\ [](/\ full_text = Joined(fragments)
          /\ IsPrefix(shown, full_text)
          /\ delivered_txt # Undelivered => delivered_txt = full_text)
    /\ [][/\ IsPrefix(full_text, full_text')
          /\ IsPrefix(shown, shown')
          /\ IsPrefix(fragments, fragments')]_vars

\* C19: a Transcript of several fragments, the last one the sentinel of a
\* failed segment, delivered whole beside the fallback of a failed
\* summarization.
C19_Witness ==
    /\ Delivered
    /\ Len(fragments) > 1
    /\ fragments[Len(fragments)].text = Sentinel
    /\ FallbackDelivered
    /\ delivered_txt = full_text
    /\ shown = full_text

----------------------------------------------------------------------------
(* Two runs in one working directory *)

\* Both runs have allocated their session id and neither is over.
BothUnderWay ==
    /\ Allocated
    /\ other.session_id # 0
    /\ ~Ended
    /\ other.pc \notin {"returned", "raised"}

\* C11 as stated: two runs under way in the same directory never hold the
\* same session id, so src_<id>.m4a and the chunk_<id>_* prefix of the one
\* are never those of the other, whatever uuid4 returns to the two.
C11_SessionIdsNeverShared ==
    BothUnderWay =>
        /\ session_id # other.session_id
        /\ temp_source # SrcFile(other.session_id)
        /\ \A f \in disk : ~(HasChunkPrefix(f, session_id)
                             /\ HasChunkPrefix(f, other.session_id))

\* The files of the directory that carry the session id s in their name
Owned(d, s) == {f \in d : f.sid = s}

\* The two runs hold different session ids.
DistinctIds == session_id # other.session_id

\* C20: while the session ids of the two runs differ, each run lists,
\* transcribes and sweeps only files that carry its own id, the file a run is
\* transcribing is on disk, and a step of one run leaves the locals of the
\* other run and the files that carry the other run's id as they were: the
\* other run goes on as if it were alone.
C20_RunsDoNotInterfere ==
    /\ [](DistinctIds =>
            /\ \A f \in Range(chunk_files) \cup sweep_todo : f.sid = session_id
            /\ \A f \in Range(other.chunk_files) \cup other.sweep_todo :
                   f.sid = other.session_id
            /\ Transcribing => chunk \in disk
            /\ other.pc \in {"attempt", "sleep", "append", "remove"} =>
                   other.chunk_files[other.i + 1] \in disk)
    /\ [][(DistinctIds /\ other' = other) =>
              /\ Owned(disk', other.session_id) = Owned(disk, other.session_id)
              /\ \A f \in (disk \ disk') \cup (disk' \ disk) : f.sid = session_id]_vars

\* C20: one run has swept its own leftover segment file and returned while
\* the other run, under another id, is between two segments with a segment
\* file of its own still on disk.
C20_Witness ==
    /\ DistinctIds
    /\ pc = "returned"
    /\ Allocated
    /\ \E f \in Range(chunk_files) : << "loop", f >> \in del_failed /\ f \notin disk
    /\ other.pc = "attempt"
    /\ other.i = 1
    /\ Owned(disk, other.session_id) # {}

----------------------------------------------------------------------------
(* The teardown applied twice *)

\* C14 as stated: a second execution of the finally block raises nothing and
\* changes nothing in the directory, and a run that has allocated its
\* session id ends only out of its finally block.
C14_CleanupIdempotent ==
    /\ [](second => pc # "raised")
    /\ [][second => disk' = disk]_vars
    /\ [][(Allocated /\ ~Ended /\ pc' \in {"returned", "raised"}) =>
              pc \in {"finally", "sweep"}]_vars

====
